---- MODULE Spec2Model ----
(***************************************************************************)
(* Model of auto_commit.py: the watch loop of main(), the file scanner     *)
(* get_go_files(), the analyzer analyze_file(), and the committer          *)
(* commit_changes() with the git index and HEAD it acts on.  The file      *)
(* system (contents, mtimes) and the outcomes of the git subprocesses are  *)
(* the environment.                                                        *)
(***************************************************************************)
EXTENDS Integers, Sequences, FiniteSets, TLC

\* ------------------------------------------------------------------ bounds
MaxCycles == 2      \* poll cycles explored
MaxWrites == 2      \* writes / deletions by the environment explored
MaxContent == 2     \* file contents are 1..MaxContent, 0 = no such file
MaxFrags == 2       \* fragments concatenated into a text given to the analyzer

\* -------------------------------------------------------------- file paths
\* A path is the sequence of its components below the repository root.
RootFile == <<"a.go">>
SubFile == <<"sub", "a.go">>
PathSeq == <<RootFile, SubFile>>       \* traversal order of the file system
Paths == {PathSeq[k] : k \in 1..Len(PathSeq)}

Contents == 0..MaxContent
\* mtimes: every file starts at 2; one write moves an mtime by at most one
Times == 1..(2 + MaxWrites)

VARIABLES
    hasGit,            \* os.path.exists(repo_path/.git)
    work,              \* path -> content in the working tree (0 = absent)
    mtime,             \* path -> modification time of the file
    index,             \* path -> content in the git index (0 = absent)
    head,              \* path -> content in the last commit (0 = absent)
    pc,                \* position of main()
    go_files,          \* main: go_files (startup scan)
    file_mtimes,       \* main: the tracked map
    current_go_files,  \* main: result of the re-scan of this cycle
    i,                 \* main: position in current_go_files (for loop)
    cc,                \* the running / last call of commit_changes
    cycle,             \* number of poll cycles begun
    hist,              \* per-cycle history: start values, reads, attempts
    lastCommit,        \* the last commit created
    out,               \* what the process has printed / its exit code
    writes             \* environment writes so far

vars == <<hasGit, work, mtime, index, head, pc, go_files, file_mtimes,
          current_go_files, i, cc, cycle, hist, lastCommit, out, writes>>

envVars == <<work, mtime, writes>>
repoVars == <<index, head, lastCommit>>
mainVars == <<go_files, file_mtimes, current_go_files, i>>

\* ------------------------------------------------------------ path helpers
\* os.path.basename(file_path)
Basename(p) == p[Len(p)]

\* Path(repo_path).glob('*.go'): the files directly in the root
GlobRoot(w) == SelectSeq(PathSeq, LAMBDA p : Len(p) = 1 /\ w[p] # 0)

\* Path(repo_path).glob('**/*.go'): the root and every depth beneath it
GlobRecursive(w) == SelectSeq(PathSeq, LAMBDA p : w[p] # 0)

\* get_go_files(repo_path): both globs, concatenated
get_go_files(w) == GlobRoot(w) \o GlobRecursive(w)

SeqRange(s) == {s[k] : k \in 1..Len(s)}

\* ------------------------------------------------------- exception routing
Exceptions == {"OSError", "TimeoutExpired", "UnicodeDecodeError"}

\* `except Exception` of commit_changes
CommitChangesCatches_bare(exc) == TRUE
CommitChangesCatches_oserror(exc) == exc = "OSError"
CommitChangesCatches(exc) == exc \in Exceptions

\* `except OSError: pass` around one file of the check loop
PerFileCatches_none(exc) == FALSE
PerFileCatches(exc) == exc = "OSError"

\* `except KeyboardInterrupt` around the while loop
MainCatches(exc) == exc = "KeyboardInterrupt"

\* where an exception raised at `site` ends up.  Sites: "cc" inside
\* commit_changes, "file" inside the per-file try, "loop" inside the loop.
Route(exc, site) ==
    IF site = "cc" /\ CommitChangesCatches(exc) THEN "cc_false"
    ELSE IF site \in {"cc", "file"} /\ PerFileCatches(exc) THEN "next_file"
    ELSE IF MainCatches(exc) THEN "exit0"
    ELSE "crash"

\* ------------------------------------------------------------ initial state
NoPath == <<>>

\* commit_changes has not been called
NoCall ==
    [path |-> NoPath, steps |-> <<>>, add |-> "none", staged |-> NoPath,
     pChanged |-> FALSE, diff |-> "none", read |-> "none", commit |-> "none",
     push |-> "none", notice |-> FALSE, ret |-> "none",
     content |-> <<>>, features |-> <<>>, feature_str |-> <<>>]

\* entry of commit_changes(file_path, repo_path)
NewCall(file_path) == [NoCall EXCEPT !.path = file_path]

\* history of one poll cycle
NewCycle(tracked) ==
    [start |-> tracked,
     reads |-> [p \in Paths |-> {}],
     attempts |-> [p \in Paths |-> 0],
     discovered |-> {},
     failed |-> {},                     \* paths whose getmtime failed
     prevFailed |-> {},                 \* the same, of the cycle before
     trigger |-> [p \in Paths |-> 0]]   \* mtime that caused the last attempt

Init ==
    /\ hasGit \in BOOLEAN
    /\ work \in [Paths -> {0, 1}]
    /\ mtime = [p \in Paths |-> 2]
    /\ head \in {work, [p \in Paths |-> 0]}
    \* the index is clean, or the operator has staged the working tree
    /\ index \in {head, work}
    /\ pc = "start"
    /\ go_files = <<>>
    /\ file_mtimes = <<>>
    /\ current_go_files = <<>>
    /\ i = 1
    /\ cc = NoCall
    /\ cycle = 0
    /\ hist = NewCycle(<<>>)
    /\ lastCommit = [by |-> NoPath, files |-> {}, n |-> 0]
    /\ out = [exit |-> -1, stop |-> FALSE, interrupted |-> FALSE]
    /\ writes = 0

Terminal == {"exit0", "exit1", "crash"}
CommitPcs == {"add", "diff", "read", "commit", "push"}
LoopPcs == {"sleep", "check", "settle"} \cup CommitPcs

\* ------------------------------------------------------------- environment
\* the contents a write can leave in a file that holds c: the same text
\* (touch, rewrite) or the next one; a file that did not exist gets text 1
WrittenContents(c) == IF c = 0 THEN {1} ELSE {c, (c % MaxContent) + 1}

\* the mtimes a write can leave: later (the usual case), the same (a write
\* within the clock's granularity) or earlier (a restored file)
WrittenTimes(t) == {t - 1, t, t + 1} \cap Times

\* some editor writes file p: content c, modification time t
WriteFile(p, c, t) ==
    /\ pc \notin Terminal
    /\ writes < MaxWrites
    /\ c \in WrittenContents(work[p])
    /\ t \in WrittenTimes(mtime[p])
    /\ <<c, t>> # <<work[p], mtime[p]>>
    /\ work' = [work EXCEPT ![p] = c]
    /\ mtime' = [mtime EXCEPT ![p] = t]
    /\ writes' = writes + 1
    /\ UNCHANGED <<hasGit, index, head, pc, go_files, file_mtimes,
                   current_go_files, i, cc, cycle, hist, lastCommit, out>>

\* file p is removed
DeleteFile(p) ==
    /\ pc \notin Terminal
    /\ writes < MaxWrites
    /\ work[p] # 0
    /\ work' = [work EXCEPT ![p] = 0]
    /\ mtime' = mtime
    /\ writes' = writes + 1
    /\ UNCHANGED <<hasGit, index, head, pc, go_files, file_mtimes,
                   current_go_files, i, cc, cycle, hist, lastCommit, out>>

\* -------------------------------------------------------- main(): startup
\* exit status of the two startup checks, or -1 to go on
StartupExit_nogitcheck(git, files) == IF files = <<>> THEN 1 ELSE -1
StartupExit(git, files) ==
    IF ~git THEN 1
    ELSE IF files = <<>> THEN 1
    ELSE -1

Startup ==
    /\ pc = "start"
    /\ LET files == get_go_files(work)
           code == StartupExit(hasGit, files)
       IN  /\ go_files' = IF code = -1 THEN files ELSE go_files
           /\ pc' = IF code = -1 THEN "track" ELSE "exit1"
           /\ out' = [out EXCEPT !.exit = code]
    /\ UNCHANGED <<hasGit, envVars, repoVars, file_mtimes, current_go_files,
                   i, cc, cycle, hist>>

\* os.path.getmtime(f): the mtime, or OSError when the file is gone
GetMtimeFails(f) == work[f] = 0

\* file_mtimes = {} ; for f in go_files: getmtime(f), 0 on OSError
InitialMtimes(files) ==
    [f \in SeqRange(files) |-> IF GetMtimeFails(f) THEN 0 ELSE mtime[f]]

TrackInitial ==
    /\ pc = "track"
    /\ file_mtimes' = InitialMtimes(go_files)
    /\ pc' = "sleep"
    /\ UNCHANGED <<hasGit, envVars, repoVars, go_files, current_go_files, i,
                   cc, cycle, hist, out>>

\* ------------------------------------------------------ main(): watch loop
\* file_mtimes.get(file_path, 0)
Tracked(m, f) == IF f \in DOMAIN m THEN m[f] ELSE 0

\* file_mtimes[f] = v
Store_skipped(m, f, v) == m
Store(m, f, v) == [g \in DOMAIN m \cup {f} |-> IF g = f THEN v ELSE m[g]]

\* `for f in current_go_files: if f not in file_mtimes: file_mtimes[f] = 0`
NewFiles(files, m) == SeqRange(files) \ DOMAIN m
TrackNew(files, m) ==
    [g \in DOMAIN m \cup SeqRange(files) |-> IF g \in DOMAIN m THEN m[g] ELSE 0]

\* `if current_mtime > last_mtime`
Changed_ge(current_mtime, last_mtime) == current_mtime >= last_mtime
Changed_ne(current_mtime, last_mtime) == current_mtime # last_mtime
Changed(current_mtime, last_mtime) == current_mtime > last_mtime

\* `if last_mtime > 0:  # Skip initial scan`
NotInitial_negative(last_mtime) == last_mtime < 0
NotInitial(last_mtime) == last_mtime > 0

\* the for loop of the check: the next file, or the next time.sleep(1)
NextPc(k) == IF k > Len(current_go_files) THEN "sleep" ELSE "check"

\* control arrives at disposition d with commit_changes record c and output o
Land(d, c, o) ==
    /\ cc' = IF d \in {"cc_false", "ret_false"} THEN [c EXCEPT !.ret = "False"]
             ELSE c
    /\ IF d \in {"cc_false", "ret_false", "ret_true", "next_file"}
       THEN /\ i' = i + 1
            /\ pc' = NextPc(i + 1)
            /\ out' = o
       ELSE IF d = "exit0"
       THEN /\ i' = i
            /\ pc' = "exit0"
            /\ out' = [o EXCEPT !.exit = 0, !.stop = TRUE]
       ELSE IF d = "crash"
       THEN /\ i' = i
            /\ pc' = "crash"
            /\ out' = [o EXCEPT !.exit = 1]
       ELSE /\ i' = i
            /\ pc' = d
            /\ out' = o

\* time.sleep(1); current_go_files = get_go_files(repo_path); new files
Rescan ==
    /\ pc = "sleep"
    /\ LET files == get_go_files(work)
           tracked == TrackNew(files, file_mtimes)
       IN  /\ current_go_files' = files
           /\ file_mtimes' = tracked
           /\ hist' = [NewCycle(file_mtimes) EXCEPT
                          !.discovered = NewFiles(files, file_mtimes),
                          !.prevFailed = hist.failed,
                          !.trigger = hist.trigger]
           /\ pc' = IF files = <<>> THEN "sleep" ELSE "check"
    /\ i' = 1
    /\ UNCHANGED <<hasGit, envVars, repoVars, go_files, cc, out>>

\* one of the first MaxCycles turns of `while True`
Poll ==
    /\ cycle < MaxCycles
    /\ Rescan
    /\ cycle' = cycle + 1

\* a later turn of `while True`; the turns are no longer counted
PollOn ==
    /\ cycle = MaxCycles
    /\ Rescan
    /\ cycle' = cycle

\* one iteration of `for file_path in current_go_files` up to the sleep(0.5)
CheckFile ==
    /\ pc = "check"
    /\ LET file_path == current_go_files[i]
           current_mtime == mtime[file_path]
           last_mtime == Tracked(file_mtimes, file_path)
       IN  IF GetMtimeFails(file_path)
           THEN /\ Land(Route("OSError", "file"), cc, out)
                /\ hist' = [hist EXCEPT !.failed = @ \cup {file_path}]
                /\ UNCHANGED file_mtimes
           ELSE /\ hist' = [hist EXCEPT
                              !.reads[file_path] = @ \cup {current_mtime},
                              !.trigger[file_path] =
                                  IF /\ Changed(current_mtime, last_mtime)
                                     /\ NotInitial(last_mtime)
                                  THEN current_mtime ELSE @]
                /\ IF Changed(current_mtime, last_mtime)
                   THEN /\ file_mtimes' = Store(file_mtimes, file_path, current_mtime)
                        /\ IF NotInitial(last_mtime)
                           THEN Land("settle", cc, out)
                           ELSE Land("next_file", cc, out)
                   ELSE /\ file_mtimes' = file_mtimes
                        /\ Land("next_file", cc, out)
    /\ UNCHANGED <<hasGit, envVars, repoVars, go_files, current_go_files, cycle>>

\* time.sleep(0.5); print Changed; call commit_changes(file_path, repo_path)
Settle ==
    /\ pc = "settle"
    /\ LET file_path == current_go_files[i]
       IN  /\ cc' = NewCall(file_path)
           /\ hist' = [hist EXCEPT !.attempts[file_path] = @ + 1]
    /\ pc' = "add"
    /\ UNCHANGED <<hasGit, envVars, repoVars, mainVars, cycle, out>>

\* ---------------------------------------------------------- analyze_file
\* A text is the sequence of its characters.  The substrings the analyzer
\* looks for, as written in the source:
S_import == <<"i", "m", "p", "o", "r", "t", " ", "(">>
S_package == <<"p", "a", "c", "k", "a", "g", "e", " ", "m", "a", "i", "n">>
S_func == <<"f", "u", "n", "c", " ">>
S_struct == <<"s", "t", "r", "u", "c", "t", " ", "{">>
S_type == <<"t", "y", "p", "e", " ">>
S_interface == <<"i", "n", "t", "e", "r", "f", "a", "c", "e", " ", "{">>
S_goroutine == <<"g", "o", "r", "o", "u", "t", "i", "n", "e">>
S_gofunc == <<"g", "o", " ", "f", "u", "n", "c">>
S_go == <<"g", "o", " ">>
S_chan == <<"c", "h", "a", "n", " ">>
S_channel == <<"c", "h", "a", "n", "n", "e", "l">>
S_defer == <<"d", "e", "f", "e", "r", " ">>
S_fmt == <<"\"", "f", "m", "t", "\"">>
S_http == <<"\"", "n", "e", "t", "/", "h", "t", "t", "p", "\"">>
S_json == <<"\"", "e", "n", "c", "o", "d", "i", "n", "g", "/", "j", "s", "o", "n", "\"">>
S_io == <<"\"", "i", "o", "\"">>
S_iodir == <<"\"", "i", "o", "/">>
S_os == <<"\"", "o", "s", "\"">>
S_sync == <<"\"", "s", "y", "n", "c", "\"">>
S_makemap == <<"m", "a", "k", "e", "(", "m", "a", "p">>
S_map == <<"m", "a", "p", "[">>
S_makeslice == <<"m", "a", "k", "e", "(", "[", "]">>
S_slice == <<"[", "]">>
S_append == <<"a", "p", "p", "e", "n", "d", "(">>
S_err == <<"i", "f", " ", "e", "r", "r", " ", "!", "=", " ", "n", "i", "l">>

\* texts a Go file can hold
ExampleText == S_fmt \o S_func \o S_err
RichText == S_import \o S_fmt \o S_gofunc \o S_chan \o S_defer \o S_err
PlainText == <<"/", "/", " ", "t", "o", "d", "o">>
SampleTexts == <<ExampleText, RichText, PlainText>>

\* the text of the file content numbered c (c >= 1)
FileText(c) == SampleTexts[((c - 1) % Len(SampleTexts)) + 1]

\* Python's `pat in content`
Has_prefix(content, pat) ==
    Len(pat) <= Len(content) /\ \A j \in 1..Len(pat) : content[j] = pat[j]
Has(content, pat) ==
    \E k \in 0..(Len(content) - Len(pat)) :
        \A j \in 1..Len(pat) : content[k + j] = pat[j]

\* `if <cond>: features.append(label)`
AppendIf(features, cond, label) ==
    IF cond THEN Append(features, label) ELSE features

\* analyze_file(content, file_name): the eighteen checks, in source order
analyze_file(content, file_name) ==
    LET f1 == AppendIf(<<>>, Has(content, S_import), "imports")
        f2 == AppendIf(f1, Has(content, S_package), "main package")
        f3 == AppendIf(f2, Has(content, S_func), "functions")
        f4 == AppendIf(f3, Has(content, S_struct) \/ Has(content, S_type), "types")
        f5 == AppendIf(f4, Has(content, S_interface), "interface")
        f6 == AppendIf(f5, \/ Has(content, S_goroutine)
                           \/ Has(content, S_gofunc)
                           \/ Has(content, S_go), "goroutines")
        f7 == AppendIf(f6, Has(content, S_chan) \/ Has(content, S_channel), "channels")
        f8 == AppendIf(f7, Has(content, S_defer), "defer")
        f9 == AppendIf(f8, Has(content, S_fmt), "fmt")
        f10 == AppendIf(f9, Has(content, S_http), "http")
        f11 == AppendIf(f10, Has(content, S_json), "json")
        f12 == AppendIf(f11, Has(content, S_io) \/ Has(content, S_iodir), "io")
        f13 == AppendIf(f12, Has(content, S_os), "os")
        f14 == AppendIf(f13, Has(content, S_sync), "sync")
        f15 == AppendIf(f14, Has(content, S_makemap) \/ Has(content, S_map), "map")
        f16 == AppendIf(f15, Has(content, S_makeslice) \/ Has(content, S_slice), "slice")
        f17 == AppendIf(f16, Has(content, S_append), "append")
        f18 == AppendIf(f17, Has(content, S_err), "error handling")
    IN  f18

\* Python's s[:n]
Slice_all(s, n) == s
Slice(s, n) == SubSeq(s, 1, IF Len(s) < n THEN Len(s) ELSE n)

\* Python's sep.join(parts), as the sequence of the pieces of the result
RECURSIVE Join(_, _)
Join(sep, parts) ==
    IF Len(parts) = 0 THEN <<>>
    ELSE IF Len(parts) = 1 THEN <<parts[1]>>
    ELSE <<parts[1], sep>> \o Join(sep, Tail(parts))

\* feature_str = ", ".join(features[:3]) if features else "code update"
FeatureStr(features) ==
    IF features # <<>> THEN Join(", ", Slice(features, 3)) ELSE <<"code update">>

\* --------------------------------------------------------- commit_changes
RcStr(rc) == IF rc = 0 THEN "zero" ELSE "nonzero"

\* file_name = os.path.basename(file_path): the pathspec handed to `git add`,
\* which git resolves against cwd = repo_path (a one-component path)
GitAddName(file_path) == <<Basename(file_path)>>

\* `git add <name>` run in repo_path: stages the file the pathspec names,
\* or fails (pathspec did not match any files) and stages nothing
GitAddResult(t, w, idx) ==
        IF t \notin Paths \/ (w[t] = 0 /\ idx[t] = 0)
        THEN [rc |-> 128, index |-> idx, staged |-> NoPath]
        ELSE [rc |-> 0, index |-> [idx EXCEPT ![t] = w[t]], staged |-> t]

\* the result of `git add` is not looked at
AfterAdd_checked(rc) == IF rc = 0 THEN "diff" ELSE "ret_false"
AfterAdd(rc) == "diff"

\* `git diff --cached --quiet`: exit code 1 when the index differs from HEAD
DiffCached(idx, hd) == IF idx # hd THEN 1 ELSE 0

\* `if result.returncode != 0:  # There are changes`
AfterDiff(rc) == IF rc # 0 THEN "read" ELSE "ret_false"

\* `git commit`: exit code 0 only when something is staged
CommitOutcomes(idx, hd) == IF idx # hd THEN {0, 1} ELSE {1}

\* `if result.returncode == 0:` print Committed, then push
AfterCommit_always(rc) == "push"
AfterCommit(rc) == IF rc = 0 THEN "push" ELSE "ret_false"

\* `return True` after the push, whatever its exit code
AfterPush(rc) == "ret_true"

Step(c, name) == [c EXCEPT !.steps = Append(@, name)]

\* subprocess.run(['git', 'add', file_name], cwd=repo_path, timeout=5)
GitAdd ==
    /\ pc = "add"
    /\ \/ /\ Land(Route("TimeoutExpired", "cc"),
                  [Step(cc, "add") EXCEPT !.add = "timeout"], out)
          \* the killed `git add` has updated the index, or has not
          /\ index' \in {index, GitAddResult(GitAddName(cc.path), work, index).index}
       \/ LET r == GitAddResult(GitAddName(cc.path), work, index)
          IN  /\ index' = r.index
              /\ Land(AfterAdd(r.rc),
                      [Step(cc, "add") EXCEPT !.add = RcStr(r.rc),
                                              !.staged = r.staged,
                                              !.pChanged = work[cc.path] # head[cc.path]],
                      out)
    /\ UNCHANGED <<hasGit, envVars, head, lastCommit, go_files, file_mtimes,
                   current_go_files, cycle, hist>>

\* subprocess.run(['git', 'diff', '--cached', '--quiet'], timeout=5)
GitDiff ==
    /\ pc = "diff"
    /\ \/ Land(Route("TimeoutExpired", "cc"),
               [Step(cc, "diff") EXCEPT !.diff = "timeout"], out)
       \/ LET rc == DiffCached(index, head)
          IN  Land(AfterDiff(rc), [Step(cc, "diff") EXCEPT !.diff = RcStr(rc)], out)
    /\ UNCHANGED <<hasGit, envVars, repoVars, go_files, file_mtimes,
                   current_go_files, cycle, hist>>

\* features = analyze_file(content, file_name); feature_str = ...
Analyzed(c, content) ==
    LET features == analyze_file(content, Basename(c.path))
    IN  [c EXCEPT !.content = content,
                  !.features = features,
                  !.feature_str = FeatureStr(features)]

\* open(file_path).read() as utf-8; analyze_file; build the message
ReadAnalyze ==
    /\ pc = "read"
    /\ IF work[cc.path] = 0
       THEN Land(Route("OSError", "cc"),
                 [Step(cc, "read") EXCEPT !.read = "OSError"], out)
       ELSE \/ Land(Route("UnicodeDecodeError", "cc"),
                    [Step(cc, "read") EXCEPT !.read = "UnicodeDecodeError"], out)
            \/ Land("commit",
                    Analyzed([Step(cc, "read") EXCEPT !.read = "ok"],
                             FileText(work[cc.path])),
                    out)
    /\ UNCHANGED <<hasGit, envVars, repoVars, go_files, file_mtimes,
                   current_go_files, cycle, hist>>

\* subprocess.run(['git', 'commit', '-m', msg, '--author=...'])
GitCommit ==
    /\ pc = "commit"
    /\ \E rc \in CommitOutcomes(index, head) :
          /\ IF rc = 0
             THEN /\ head' = index
                  /\ lastCommit' = [by |-> cc.path,
                                    files |-> {p \in Paths : index[p] # head[p]},
                                    n |-> lastCommit.n + 1]
             ELSE UNCHANGED <<head, lastCommit>>
          /\ Land(AfterCommit(rc),
                  [Step(cc, "commit") EXCEPT !.commit = RcStr(rc),
                                             !.notice = (AfterCommit(rc) = "push")],
                  out)
    /\ UNCHANGED <<hasGit, envVars, index, go_files, file_mtimes,
                   current_go_files, cycle, hist>>

\* subprocess.run(['git', 'push', 'origin', 'main'], timeout=10); return True
GitPush ==
    /\ pc = "push"
    /\ \/ Land(Route("TimeoutExpired", "cc"),
               [Step(cc, "push") EXCEPT !.push = "timeout"], out)
       \/ \E rc \in {0, 1} :
             LET d == AfterPush(rc)
             IN  Land(d, [Step(cc, "push") EXCEPT
                             !.push = RcStr(rc),
                             !.ret = IF d = "ret_true" THEN "True" ELSE "False"],
                      out)
    /\ UNCHANGED <<hasGit, envVars, repoVars, go_files, file_mtimes,
                   current_go_files, cycle, hist>>

\* ----------------------------------------------------- operator interrupt
\* which try block the statement at position p of the loop is inside
SiteOf(p) ==
    IF p \in CommitPcs THEN "cc"
    ELSE IF p \in {"check", "settle"} THEN "file"
    ELSE "loop"

\* Ctrl+C: KeyboardInterrupt raised at the current statement of the loop
Interrupt ==
    /\ pc \in LoopPcs
    /\ Land(Route("KeyboardInterrupt", SiteOf(pc)), cc,
            [out EXCEPT !.interrupted = TRUE])
    /\ UNCHANGED <<hasGit, envVars, repoVars, go_files, file_mtimes,
                   current_go_files, cycle, hist>>

\* ------------------------------------------------------------ specification
Next ==
    \/ \E p \in Paths, c \in 1..MaxContent, t \in Times : WriteFile(p, c, t)
    \/ \E p \in Paths : DeleteFile(p)
    \/ Startup
    \/ TrackInitial
    \/ Poll
    \/ CheckFile
    \/ Settle
    \/ GitAdd
    \/ GitDiff
    \/ ReadAnalyze
    \/ GitCommit
    \/ GitPush
    \/ Interrupt

Spec == Init /\ [][Next]_vars

\* the steps of the program itself; each one returns (the sleeps end, the
\* git subprocesses without a timeout are assumed to end)
Program ==
    \/ Startup
    \/ TrackInitial
    \/ Poll
    \/ PollOn
    \/ CheckFile
    \/ Settle
    \/ GitAdd
    \/ GitDiff
    \/ ReadAnalyze
    \/ GitCommit
    \/ GitPush

\* the watch loop running without end
NextLive ==
    \/ Next
    \/ PollOn

FairSpec == Init /\ [][NextLive]_vars /\ WF_vars(Program)

TypeOK ==
    /\ hasGit \in BOOLEAN
    /\ work \in [Paths -> Contents]
    /\ mtime \in [Paths -> Times]
    /\ index \in [Paths -> Contents]
    /\ head \in [Paths -> Contents]
    /\ pc \in {"start", "track"} \cup LoopPcs \cup Terminal
    /\ DOMAIN file_mtimes \subseteq Paths
    /\ \A f \in DOMAIN file_mtimes : file_mtimes[f] \in {0} \cup Times
    /\ cycle \in 0..MaxCycles
    /\ writes \in 0..MaxWrites

\* ------------------------------------------- the analyzer on its own texts
\* pieces of Go source: every substring the analyzer looks for, and pieces
\* that complete one only together with a neighbour ("chan" + "nel",
\* "go" + " ", "make(" + "[]")
Fragments ==
    {S_import, S_package, S_func, S_struct, S_type, S_interface, S_goroutine,
     S_gofunc, S_go, S_chan, S_channel, S_defer, S_fmt, S_http, S_json, S_io,
     S_iodir, S_os, S_sync, S_makemap, S_map, S_makeslice, S_slice, S_append,
     S_err,
     <<"c", "h", "a", "n">>, <<"n", "e", "l">>, <<"g", "o">>, <<" ">>,
     <<"m", "a", "k", "e", "(">>}

\* the texts made of at most n fragments
RECURSIVE TextsUpTo(_)
TextsUpTo(n) ==
    IF n = 0 THEN {<<>>}
    ELSE LET shorter == TextsUpTo(n - 1)
         IN  shorter \cup {t \o f : t \in shorter, f \in Fragments}

Texts == TextsUpTo(MaxFrags) \cup SeqRange(SampleTexts)

\* commit_changes has read the text and is about to analyze it
InitAnalyzer ==
    /\ hasGit = TRUE
    /\ work = [p \in Paths |-> 1]
    /\ mtime = [p \in Paths |-> 2]
    /\ head = [p \in Paths |-> 0]
    /\ index = [head EXCEPT ![RootFile] = 1]
    /\ pc = "analyze"
    /\ go_files = <<RootFile>>
    /\ file_mtimes = <<>>
    /\ current_go_files = <<RootFile>>
    /\ i = 1
    /\ \E content \in Texts :
          cc = [NewCall(RootFile) EXCEPT !.content = content]
    /\ cycle = 0
    /\ hist = NewCycle(<<>>)
    /\ lastCommit = [by |-> NoPath, files |-> {}, n |-> 0]
    /\ out = [exit |-> -1, stop |-> FALSE, interrupted |-> FALSE]
    /\ writes = 0

\* lines 86-88 of commit_changes applied to the text
AnalyzeText ==
    /\ pc = "analyze"
    /\ cc' = Analyzed(cc, cc.content)
    /\ pc' = "analyzed"
    /\ UNCHANGED <<hasGit, envVars, repoVars, mainVars, cycle, hist, out>>

SpecAnalyzer == InitAnalyzer /\ [][AnalyzeText]_vars

\* ================================================================== claims
IsPrefix(s, t) == Len(s) <= Len(t) /\ \A k \in 1..Len(s) : s[k] = t[k]

StepOrder == <<"add", "diff", "read", "commit", "push">>

\* the last call of commit_changes ended because of a failure
CallFailed ==
    \/ cc.add = "timeout"
    \/ cc.diff = "timeout"
    \/ cc.read \in {"OSError", "UnicodeDecodeError"}
    \/ cc.commit = "nonzero"
    \/ cc.push = "timeout"

\* C1: in every poll cycle and for every file that was tracked when the
\* cycle began, if every mtime read for the file in this cycle equals the
\* value tracked at the end of the previous cycle, commit_changes is not
\* called for the file in this cycle.
C1_UnchangedMtimeNoCommit ==
    \A p \in Paths :
        (/\ p \in DOMAIN hist.start
         /\ \A r \in hist.reads[p] : r = hist.start[p])
        => hist.attempts[p] = 0

\* C1 witness: the second cycle has read a tracked file's mtime, found the
\* value the first cycle left, and has ended without a commit attempt.
C1_Witness ==
    /\ cycle = 2
    /\ pc = "sleep"
    /\ \E p \in Paths :
          /\ p \in DOMAIN hist.start
          /\ hist.start[p] > 0
          /\ hist.reads[p] = {hist.start[p]}
          /\ hist.attempts[p] = 0

\* C2 (as claimed): a file discovered by the re-scan of a cycle is recorded
\* and announced, and commit_changes is not called for it in that cycle.
C2_NewFileNoCommitInDiscoveryCycle ==
    \A p \in hist.discovered :
        /\ p \in DOMAIN file_mtimes
        /\ hist.attempts[p] = 0

\* C3 (as claimed): a call of commit_changes(p, root) whose file p has the
\* content of the last commit when it is staged creates no commit and
\* returns False.
C3_NoDifferenceNoCommit ==
    (cc.add \in {"zero", "nonzero"} /\ ~cc.pChanged)
    => (cc.commit # "zero" /\ cc.ret # "True")

\* C4 (as claimed): when commit_changes(p, root) creates a commit, the file
\* that `git add` staged is the file at path p.
C4_CommitsTheGivenPath ==
    cc.commit = "zero" => cc.staged = cc.path

\* C5 (as claimed): once the commit step succeeded, the committed notice is
\* printed and the call returns True for every outcome of the push.
C5_SuccessWhateverThePush ==
    (cc.commit = "zero" /\ cc.push # "none")
    => (cc.notice /\ cc.ret = "True")

\* C6: no failure ends the watch loop.  The process never dies of an
\* exception, it leaves the loop only by an operator interrupt, a failed
\* commit attempt has returned False, and the step that reports a failure
\* moves on to the next file of the cycle or to the next sleep.
C6_Inv ==
    /\ pc # "crash"
    /\ pc = "exit0" => out.interrupted
    /\ (CallFailed /\ ~out.interrupted)
       => (cc.ret = "False" /\ pc \in {"sleep", "check", "settle"})

C6_Step ==
    (pc \in LoopPcs /\ writes' = writes)
    => /\ pc' \in LoopPcs \cup {"exit0"}
       /\ (pc' = "exit0") => (out'.interrupted /\ ~out.interrupted)
       /\ (pc = "check" /\ GetMtimeFails(current_go_files[i]) /\ pc' # "exit0")
          => (i' = i + 1 /\ pc' = NextPc(i + 1) /\ file_mtimes' = file_mtimes)
       /\ (pc \in CommitPcs /\ pc' \notin CommitPcs /\ pc' # "exit0")
          => (i' = i + 1 /\ pc' = NextPc(i + 1))

C7_AddFailureProceeds ==
    (cc.add \in {"timeout", "nonzero"} /\ ~out.interrupted)
    => (pc = "diff" \/ cc.diff # "none")

\* C7 (amended): after a non-zero exit of `git add` the call goes on to the
\* staged-difference check, whose exit code decides whether the file is read
\* and a commit attempted; after a timeout of `git add` the call ends at once
\* with False, without the check and without a commit.
C7_AddExitIgnoredTimeoutEnds ==
    /\ (cc.add = "nonzero" /\ ~out.interrupted)
       => /\ pc = "diff" \/ cc.diff # "none"
          /\ cc.diff = "zero" => (cc.steps = <<"add", "diff">> /\ cc.ret = "False")
          /\ cc.diff = "nonzero" => (pc = "read" \/ cc.read # "none")
    /\ cc.add = "timeout"
       => (cc.steps = <<"add">> /\ cc.ret = "False" /\ cc.commit = "none")

\* C7 witness: `git add` exited non-zero and the staged-difference check ran
\* and ended the call.
C7_Witness ==
    /\ cc.add = "nonzero"
    /\ cc.diff = "zero"
    /\ cc.ret = "False"

\* C8: the steps of one call are a prefix of stage, check, read, commit,
\* push (so each runs at most once); the commit is attempted only after the
\* check reported differences and the file was read; the push is attempted
\* only after the commit exited with 0.
C8_StepOrder ==
    /\ IsPrefix(cc.steps, StepOrder)
    /\ (\E k \in 1..Len(cc.steps) : cc.steps[k] = "commit")
       => (cc.diff = "nonzero" /\ cc.read = "ok")
    /\ (\E k \in 1..Len(cc.steps) : cc.steps[k] = "push")
       => cc.commit = "zero"
    /\ pc \in CommitPcs => IsPrefix(Append(cc.steps, pc), StepOrder)

\* C8 witness: a call ran all five steps and returned True.
C8_Witness ==
    /\ cc.steps = StepOrder
    /\ cc.ret = "True"

\* C9: when the root has no .git or the startup scan finds no file, the
\* process has exited with status 1 once startup is over: no poll cycle has
\* run, commit_changes was never called and no commit exists; status 1 is
\* reached in no other state.
C9_StartupFailureExits ==
    /\ (pc # "start" /\ (~hasGit \/ go_files = <<>>))
       => /\ pc = "exit1"
          /\ out.exit = 1
          /\ cycle = 0
          /\ cc = NoCall
          /\ lastCommit.n = 0
    /\ pc = "exit1" => (~hasGit \/ go_files = <<>>)

\* C9 witness: go files exist but the root has no .git, and the process has
\* exited with status 1.
C9_Witness ==
    /\ pc = "exit1"
    /\ ~hasGit
    /\ \E p \in Paths : work[p] # 0

\* C10: after an operator interrupt the process has stopped with the stop
\* notice and exit code 0, wherever in the loop the interrupt arrived.
C10_InterruptStops ==
    out.interrupted => (pc = "exit0" /\ out.exit = 0 /\ out.stop)

\* C10 witness: the interrupt arrived while commit_changes was waiting for
\* the commit subprocess, and the process stopped without a return value.
C10_Witness ==
    /\ out.interrupted
    /\ cc.steps = <<"add", "diff", "read">>
    /\ cc.ret = "none"
    /\ pc = "exit0"

\* C11 (as claimed): the scanner's result lists every matching file exactly
\* once, whether it lies directly in the root or beneath it.
C11_ScanListsEachFileOnce ==
    /\ \A j, k \in 1..Len(current_go_files) :
          current_go_files[j] = current_go_files[k] => j = k
    /\ \A j, k \in 1..Len(go_files) : go_files[j] = go_files[k] => j = k

\* C14: a detected change is stored in the tracked map by the step that
\* detects it, so that the new mtime is tracked during the settle delay and
\* during the whole call of commit_changes; and a commit attempt is started
\* for a file only when its mtime is greater than the mtime that caused the
\* previous attempt for it, whatever that attempt returned.
C14_Inv ==
    (pc \in {"settle"} \cup CommitPcs)
    => LET f == current_go_files[i]
       IN  /\ f \in DOMAIN file_mtimes
           /\ file_mtimes[f] = hist.trigger[f]
           /\ hist.trigger[f] \in hist.reads[f]

C14_Step ==
    (pc = "check" /\ pc' = "settle")
    => LET f == current_go_files[i]
       IN  /\ mtime[f] > hist.trigger[f]
           /\ mtime[f] > Tracked(file_mtimes, f)
           /\ file_mtimes'[f] = mtime[f]

C14_StoredBeforeCommit == []C14_Inv /\ [][C14_Step]_vars

\* C14 witness: the commit attempt for a file returned False in the first
\* cycle; the second cycle read the same mtime again and ended without a
\* further attempt for the file.
C14_Witness ==
    /\ cycle = 2
    /\ pc = "sleep"
    /\ cc.ret = "False"
    /\ cc.path \in Paths
    /\ hist.attempts[cc.path] = 0
    /\ hist.reads[cc.path] = {hist.trigger[cc.path]}

\* C16: a failed read of a path's mtime skips the path: the step leaves the
\* tracked map and the commit attempts as they are, calls nothing and moves
\* on to the next path of the cycle; a path none of whose reads succeeded in
\* a cycle keeps the tracked value it had and gets no commit attempt in that
\* cycle; and every cycle visits every path its scan returned, also one
\* whose read failed in the cycle before.
C16_Inv ==
    /\ \A p \in hist.failed :
          hist.reads[p] = {}
          => /\ hist.attempts[p] = 0
             /\ Tracked(file_mtimes, p) = Tracked(hist.start, p)
    /\ (pc = "sleep" /\ cycle > 0)
       => \A p \in SeqRange(current_go_files) :
             hist.reads[p] # {} \/ p \in hist.failed

C16_Step ==
    (/\ pc = "check"
     /\ GetMtimeFails(current_go_files[i])
     /\ writes' = writes
     /\ ~out'.interrupted)
    => /\ file_mtimes' = file_mtimes
       /\ hist'.attempts = hist.attempts
       /\ cc' = cc
       /\ i' = i + 1
       /\ pc' = NextPc(i + 1)

C17_Step ==
    /\ DOMAIN file_mtimes \subseteq DOMAIN file_mtimes'
    /\ \A p \in DOMAIN file_mtimes : file_mtimes'[p] >= file_mtimes[p]
    /\ \A p \in DOMAIN file_mtimes' :
          (p \notin DOMAIN file_mtimes \/ file_mtimes'[p] # file_mtimes[p])
          => \/ file_mtimes'[p] = 0
             \/ (work[p] # 0 /\ file_mtimes'[p] = mtime[p])

C17_TrackedMapOnlyGrows == [][C17_Step]_vars

\* C17 witness: a cycle has ended whose scan no longer returned a deleted
\* file, and the file is still tracked with the mtime read earlier.
C17_Witness ==
    /\ pc = "sleep"
    /\ cycle >= 1
    /\ \E p \in DOMAIN file_mtimes :
          /\ work[p] = 0
          /\ p \notin SeqRange(current_go_files)
          /\ file_mtimes[p] > 0

\* C18 (as claimed): in one poll cycle commit_changes is called at most once
\* for any one file.
C18_OneAttemptPerFilePerCycle ==
    \A p \in Paths : hist.attempts[p] <= 1

\* C19 (as claimed): a commit created by commit_changes(p, root) changes no
\* file other than p.  Stated for the calls whose `git add` staged p itself.
C19_CommitHoldsOnlyItsFile ==
    (cc.commit = "zero" /\ cc.staged = cc.path)
    => lastCommit.files \subseteq {cc.path}

\* the checklist of the analyzer: each label with the substrings that give it
Checklist ==
    <<[label |-> "imports", pats |-> {S_import}],
      [label |-> "main package", pats |-> {S_package}],
      [label |-> "functions", pats |-> {S_func}],
      [label |-> "types", pats |-> {S_struct, S_type}],
      [label |-> "interface", pats |-> {S_interface}],
      [label |-> "goroutines", pats |-> {S_goroutine, S_gofunc, S_go}],
      [label |-> "channels", pats |-> {S_chan, S_channel}],
      [label |-> "defer", pats |-> {S_defer}],
      [label |-> "fmt", pats |-> {S_fmt}],
      [label |-> "http", pats |-> {S_http}],
      [label |-> "json", pats |-> {S_json}],
      [label |-> "io", pats |-> {S_io, S_iodir}],
      [label |-> "os", pats |-> {S_os}],
      [label |-> "sync", pats |-> {S_sync}],
      [label |-> "map", pats |-> {S_makemap, S_map}],
      [label |-> "slice", pats |-> {S_makeslice, S_slice}],
      [label |-> "append", pats |-> {S_append}],
      [label |-> "error handling", pats |-> {S_err}]>>

\* pat is a substring of text
Occurs(pat, text) ==
    \E k \in 1..(Len(text) - Len(pat) + 1) :
        SubSeq(text, k, k + Len(pat) - 1) = pat

\* C12: for every text, the label list analyze_file returns is a subsequence
\* of the checklist order, has no duplicates and at most 18 entries, and
\* holds a label exactly when one of the label's substrings occurs in the text.
C12_LabelsFollowChecklist ==
    pc = "analyzed" =>
        LET fs == cc.features
        IN  /\ Len(fs) <= 18
            /\ \A j, k \in 1..Len(fs) : fs[j] = fs[k] => j = k
            /\ \A j, k \in 1..Len(fs) :
                  j < k => \E a, b \in 1..Len(Checklist) :
                              /\ a < b
                              /\ Checklist[a].label = fs[j]
                              /\ Checklist[b].label = fs[k]
            /\ \A a \in 1..Len(Checklist) :
                  (\E j \in 1..Len(fs) : fs[j] = Checklist[a].label)
                  <=> \E pat \in Checklist[a].pats : Occurs(pat, cc.content)

\* a text whose keywords are completed across fragments and overlap
C12_Witness ==
    /\ pc = "analyzed"
    /\ cc.content = S_gofunc \o <<" ">>
    /\ cc.features = <<"functions", "goroutines">>

\* C13: the label part of the commit message is 'code update' when the
\* analyzer returns no label, and otherwise the first min(3, n) labels in
\* order, joined by ', '; the text holding only "fmt", func and
\* if err != nil gives exactly functions, fmt, error handling.
C13_MessageLabelPart ==
    pc = "analyzed" =>
        LET fs == cc.features
            s == cc.feature_str
            m == IF Len(fs) < 3 THEN Len(fs) ELSE 3
        IN  /\ Len(fs) = 0 => s = <<"code update">>
            /\ Len(fs) > 0 =>
                  /\ Len(s) = 2 * m - 1
                  /\ \A k \in 1..m : s[2 * k - 1] = fs[k]
                  /\ \A k \in 1..(m - 1) : s[2 * k] = ", "
            /\ cc.content = ExampleText =>
                  s = <<"functions", ", ", "fmt", ", ", "error handling">>

\* a text with more than three labels, cut to the first three
C13_Witness ==
    /\ pc = "analyzed"
    /\ Len(cc.features) > 3
    /\ cc.feature_str = <<"imports", ", ", "goroutines", ", ", "channels">>

\* file f is tracked with a real timestamp, exists, and its mtime t is
\* greater than the tracked value, while the loop runs
C15_Pending(f, t) ==
    /\ pc \in LoopPcs
    /\ f \in DOMAIN file_mtimes
    /\ file_mtimes[f] > 0
    /\ work[f] # 0
    /\ mtime[f] = t
    /\ t > file_mtimes[f]

\* the loop is about to call commit_changes for f
C15_Attempt(f) == pc = "settle" /\ current_go_files[i] = f

\* C15: for every tracked file with a real (greater than 0) tracked
\* timestamp whose mtime becomes greater than the tracked value, a commit
\* attempt for the file eventually occurs, unless the file stops being
\* accessible, its mtime is set back, or the loop is interrupted; also when
\* the increase happens while a commit attempt is in progress.
C15_ChangeLeadsToAttempt ==
    \A f \in Paths, t \in Times :
        C15_Pending(f, t) ~>
            \/ C15_Attempt(f)
            \/ work[f] = 0
            \/ mtime[f] < t
            \/ out.interrupted

\* a second attempt for the root file in one cycle: its mtime grew while
\* the first attempt was on its way
C15_Witness ==
    /\ C15_Attempt(RootFile)
    /\ hist.attempts[RootFile] = 1
    /\ cc.path = RootFile
    /\ cc.ret \in {"True", "False"}

====
